---- MODULE Spec2Model ----
(***************************************************************************)
(* Model of src/app.py: a Flask form handler that estimates the daily      *)
(* solar energy of a point, appends the estimate to a query log, and       *)
(* recomputes and saves the ten best regions of a static catalog.          *)
(*                                                                         *)
(* Units.  Floats are carried as scaled integers:                          *)
(*   coordinates      1e-5 degree   (keys, rounded to 4 decimals: 1e-4)    *)
(*   temperature      degree C                                             *)
(*   cloud cover      0.01 percent                                         *)
(*   intensity        0.01 W/m2     (the code rounds to 2 decimals)        *)
(*   daylight         1e-6 hour     (0.01 hour once rounded for a row)     *)
(*   energy           0.001 kWh/m2  (the code rounds to 3 decimals)        *)
(* Inputs are finite numbers; NaN and infinities are not drawn.            *)
(***************************************************************************)
EXTENDS Integers, Sequences, FiniteSets, TLC

\* ------------------------------------------------------------------ bounds
MaxPosts == 2

\* --------------------------------------------------------------- constants
SOLAR_CONSTANT == 1367
MAXSIZE == 512
DEFAULT_TEMP == 25
DEFAULT_CLOUD == 0
TOP_N == 10

Workers == {1, 2}
Days == {172, 300}

\* ---------------------------------------------------------- number helpers
\* round-half-even of a / b for b > 0 (Python's round on the exact quotient)
RoundDiv(a, b) ==
    LET q == a \div b
        r == a % b
    IN  IF 2 * r < b THEN q
        ELSE IF 2 * r > b THEN q + 1
        ELSE IF q % 2 = 0 THEN q ELSE q + 1

\* round(x, 4) of a coordinate given in 1e-5 degree; the result is in 1e-4
Round4(x) == RoundDiv(x, 10)

RECURSIVE SeqSum(_)
SeqSum(s) == IF s = <<>> THEN 0 ELSE Head(s) + SeqSum(Tail(s))

\* ------------------------------------------------------ solar calculations
\* -tan(lat) * tan(declination_angle(day)) in 1e-6, for the latitudes and
\* days the model draws (computed with the source's formulas)
ACOS_ARG ==
       172 :> (1297160 :> -99917 @@ 1308270 :> -100804 @@ 1738500 :> -135811 @@ 1852040 :> -145309 @@ 1907600 :> -150003 @@ 2257260 :> -180318 @@ 2302250 :> -184326 @@ 2325990 :> -186451 @@ 2559410 :> -207773 @@ 2684670 :> -219557 @@ 2691240 :> -220182 @@ 2861390 :> -236636 @@ 2861394 :> -236636 @@ 7000000 :> -1191775)
    @@ 300 :> (1297160 :> 56508 @@ 1308270 :> 57010 @@ 1738500 :> 76808 @@ 1852040 :> 82180 @@ 1907600 :> 84834 @@ 2257260 :> 101979 @@ 2302250 :> 104246 @@ 2325990 :> 105448 @@ 2559410 :> 117506 @@ 2684670 :> 124171 @@ 2691240 :> 124524 @@ 2861390 :> 133830 @@ 2861394 :> 133830 @@ 7000000 :> 674010)

\* (2 * acos(arg) * 180 / pi) / 15 in 1e-6 hour where acos is defined
HOUR_ANGLE ==
       172 :> (1297160 :> 12764588 @@ 1308270 :> 12771392 @@ 1738500 :> 13040734 @@ 1852040 :> 13114026 @@ 1907600 :> 13150281 @@ 2257260 :> 13385104 @@ 2302250 :> 13416243 @@ 2325990 :> 13432768 @@ 2559410 :> 13598918 @@ 2684670 :> 13691071 @@ 2691240 :> 13695967 @@ 2861390 :> 13825077 @@ 2861394 :> 13825080 @@ 7000000 :> 0)
    @@ 300 :> (1297160 :> 11568078 @@ 1308270 :> 11564243 @@ 1738500 :> 11412652 @@ 1852040 :> 11371483 @@ 1907600 :> 11351133 @@ 2257260 :> 11219581 @@ 2302250 :> 11202173 @@ 2325990 :> 11192938 @@ 2559410 :> 11100239 @@ 2684670 :> 11048950 @@ 2691240 :> 11046228 @@ 2861390 :> 10974540 @@ 2861394 :> 10974538 @@ 7000000 :> 6349696)

\* daylight_hours(latitude, declination_angle(day)): acos raises ValueError
\* outside [-1, 1] and the except branch returns 0
daylight_hours(latitude, day) ==
    LET arg == ACOS_ARG[day][latitude]
    IN  IF arg < -1000000 \/ arg > 1000000 THEN 0
        ELSE HOUR_ANGLE[day][latitude]

\* round(SOLAR_CONSTANT * (1 - cloud_cover / 100), 2)
solar_intensity(cloud_cover) ==
    RoundDiv(SOLAR_CONSTANT * (10000 - cloud_cover), 100)

\* round(intensity * daylight / 1000, 3); the product is split so that it
\* stays within 32 bits: daylight = dh * 1e4 + dl
calculate_energy(intensity, daylight) ==
    LET dh == daylight \div 10000
        dl == daylight % 10000
        x  == intensity * dh + ((intensity * dl) \div 10000)
    IN  (x + 5000) \div 10000

\* round(daylight, 2), in 0.01 hour
RoundDaylight(daylight) == RoundDiv(daylight, 10000)

\* ---------------------------------------------------------- weather gateway
\* The pair returned when anything inside the try block raises
Fallback == [temp |-> DEFAULT_TEMP, clouds |-> DEFAULT_CLOUD]

\* Outcomes of session.get + raise_for_status + res.json().  transport is
\* "ok" or the exception raised ("ConnectionError", "Timeout", "HTTPError",
\* "JSONDecodeError").  A JSON body is an object or not; its current_weather and
\* hourly members are absent, a non-object (null), or an object whose
\* temperature / cloudcover member is present or not; numeric = FALSE is a
\* cloudcover list holding a non-number.
Body(isObject, cw, hr) == [isObject |-> isObject, cw |-> cw, hourly |-> hr]
Member(present, isObject, has, val) ==
    [present |-> present, isObject |-> isObject, has |-> has, val |-> val]
Hourly(present, isObject, has, numeric, list) ==
    [present |-> present, isObject |-> isObject, has |-> has,
     numeric |-> numeric, list |-> list]
NoBody == Body(FALSE, Member(FALSE, FALSE, FALSE, 0),
               Hourly(FALSE, FALSE, FALSE, TRUE, <<>>))
Failure(kind) == [transport |-> kind, body |-> NoBody]
Json(body) == [transport |-> "ok", body |-> body]
GoodBody(temp, list) ==
    Body(TRUE, Member(TRUE, TRUE, TRUE, temp), Hourly(TRUE, TRUE, TRUE, TRUE, list))

\* sum(clouds_list) / len(clouds_list) if clouds_list else 0
AverageClouds(list) ==
    IF list = <<>> THEN 0 ELSE SeqSum(list) \div Len(list)

\* The exception the try block of get_weather_data raises on an outcome,
\* "none" when it runs to its return
WeatherException(res) ==
    IF res.transport # "ok" THEN res.transport
    ELSE IF ~res.body.isObject THEN "AttributeError"
    ELSE IF res.body.cw.present /\ ~res.body.cw.isObject THEN "AttributeError"
    ELSE IF res.body.hourly.present /\ ~res.body.hourly.isObject THEN "AttributeError"
    ELSE IF /\ res.body.hourly.present
            /\ res.body.hourly.has
            /\ ~res.body.hourly.numeric THEN "TypeError"
    ELSE "none"

\* variant: the except clause names the errors of the requests library only
Caught_requests_only(exception) ==
    exception \in {"ConnectionError", "Timeout", "HTTPError", "JSONDecodeError"}

\* the bare except clause catches whatever was raised
Caught(exception) == TRUE

\* What the try block returns when nothing raises: each member has its own
\* default (25 for the temperature, [0] for the cloud cover list)
WeatherParsed(res) ==
    LET cw == res.body.cw
        hr == res.body.hourly
        temp == IF cw.present /\ cw.has THEN cw.val ELSE DEFAULT_TEMP
        clouds_list == IF hr.present /\ hr.has THEN hr.list ELSE <<DEFAULT_CLOUD>>
    IN  [temp |-> temp, clouds |-> AverageClouds(clouds_list)]

\* The uncached body of get_weather_data applied to one upstream outcome:
\* the pair returned, or raised = TRUE when an exception leaves the function
FetchWeather(res) ==
    LET exception == WeatherException(res)
    IN  IF exception = "none" THEN [raised |-> FALSE, val |-> WeatherParsed(res)]
        ELSE IF Caught(exception) THEN [raised |-> FALSE, val |-> Fallback]
        ELSE [raised |-> TRUE, val |-> Fallback]

\* --------------------------------------------------------------- LRU cache
\* functools.lru_cache(maxsize=512): entries in recency order, oldest first
CacheHas(cache, key) == \E i \in 1..Len(cache) : cache[i].key = key
CacheIndex(cache, key) == CHOOSE i \in 1..Len(cache) : cache[i].key = key
CacheValue(cache, key) == cache[CacheIndex(cache, key)].val

\* a hit moves the entry to the most-recent end
CacheTouch(cache, key) ==
    LET i == CacheIndex(cache, key)
    IN  SubSeq(cache, 1, i - 1) \o SubSeq(cache, i + 1, Len(cache)) \o <<cache[i]>>

\* variant: the cache is full one entry early
CacheStore_one_short(cache, key, val) ==
    LET c == Append(cache, [key |-> key, val |-> val])
    IN  IF Len(c) >= MAXSIZE THEN Tail(c) ELSE c

\* a miss stores the result; a full cache drops its oldest entry
CacheStore(cache, key, val) ==
    LET c == Append(cache, [key |-> key, val |-> val])
    IN  IF Len(c) > MAXSIZE THEN Tail(c) ELSE c

\* ---------------------------------------------------------------- provider
\* The forecast provider as the environment: what it answers for a key in
\* each of its modes.  Cloud samples are in 0.01 percent.
UpTemp(key) == 15 + ((key.lat + key.lon) % 25)
UpClouds(key) ==
    LET c == (key.lon * 7) % 9000
    IN  <<c, c + 2 * (key.lat % 400)>>

Respond(mode, key) ==
    CASE mode = "up"      -> Json(GoodBody(UpTemp(key), UpClouds(key)))
      [] mode = "wild"    -> Json(GoodBody(UpTemp(key), <<15000>>))
      [] mode = "partial" -> Json(Body(TRUE, Member(TRUE, TRUE, FALSE, 0),
                                       Hourly(TRUE, TRUE, TRUE, TRUE, UpClouds(key))))
      [] OTHER            -> Failure("Timeout")

\* Reverse geocoding: the name the provider has for a key, "" when the
\* address carries none of city / town / village / state
PlaceName(key) ==
    IF key.lat = 286139 THEN "New Delhi" ELSE ""

\* the uncached body of get_region_name_from_coords
FetchRegionName(mode, key) ==
    IF mode = "down" THEN "Unknown"
    ELSE IF PlaceName(key) # "" THEN PlaceName(key) ELSE "Unknown"

\* ------------------------------------------------------------ files, rows
\* form fields and CSV cells are text; float() accepts them or raises
Num(v) == [num |-> TRUE, val |-> v]
NotNum == [num |-> FALSE, val |-> 0]

\* one EnergyEstimate: the dict built in index and in the ranking loop
Estimate(region, date, time, latitude, weather) ==
    LET daylight == daylight_hours(latitude, date)
        intensity == solar_intensity(weather.clouds)
    IN  [region |-> region, date |-> date, time |-> time,
         temp |-> weather.temp, cloud |-> weather.clouds,
         intensity |-> intensity, daylight |-> RoundDaylight(daylight),
         energy |-> calculate_energy(intensity, daylight)]

NoWeather == [temp |-> 0, clouds |-> 0]
NoRow == [region |-> "", date |-> 0, time |-> 0, temp |-> 0, cloud |-> 0,
          intensity |-> 0, daylight |-> 0, energy |-> 0]
HeaderLine == [header |-> TRUE, row |-> NoRow]
DataLine(row) == [header |-> FALSE, row |-> row]
AbsentFile == [exists |-> FALSE, lines |-> <<>>]

RECURSIVE DataLines(_)
DataLines(rows) ==
    IF rows = <<>> THEN <<>> ELSE <<DataLine(Head(rows))>> \o DataLines(Tail(rows))

\* the data rows of a file, in file order (what a CSV reader yields)
IsData(line) == ~line.header
IsHeader(line) == line.header
RowOf(lines) == [i \in 1..Len(lines) |-> lines[i].row]
FileRows(file) == RowOf(SelectSeq(file.lines, IsData))
HeaderCount(file) == Len(SelectSeq(file.lines, IsHeader))

\* files left by an earlier life of the process
OldRow == [region |-> "Old", date |-> 100, time |-> 0, temp |-> 30, cloud |-> 1000,
           intensity |-> 123030, daylight |-> 1200, energy |-> 14764]
OldFile == [exists |-> TRUE, lines |-> <<HeaderLine, DataLine(OldRow)>>]

\* --------------------------------------------------------- region catalog
CatalogRow(region, latitude, longitude) ==
    [region |-> region, latitude |-> latitude, longitude |-> longitude]
Catalog(rows) == [exists |-> TRUE, rows |-> rows]

Delhi == CatalogRow("Delhi", Num(2861390), Num(7720900))
Mumbai == CatalogRow("Mumbai", Num(1907600), Num(7287770))
Chennai == CatalogRow("Chennai", Num(1308270), Num(8027070))
Bengaluru == CatalogRow("Bengaluru", Num(1297160), Num(7759460))
Kolkata == CatalogRow("Kolkata", Num(2257260), Num(8836390))
Hyderabad == CatalogRow("Hyderabad", Num(1738500), Num(7848670))
Jaipur == CatalogRow("Jaipur", Num(2691240), Num(7578730))
Ahmedabad == CatalogRow("Ahmedabad", Num(2302250), Num(7257140))
Pune == CatalogRow("Pune", Num(1852040), Num(7385670))
Lucknow == CatalogRow("Lucknow", Num(2684670), Num(8094620))
Bhopal == CatalogRow("Bhopal", Num(2325990), Num(7741260))
Patna == CatalogRow("Patna", Num(2559410), Num(8513760))
Noida == CatalogRow("Noida", Num(2861390), Num(7739100))
BadRow == CatalogRow("Nowhere", NotNum, Num(7720900))

CatMissing == [exists |-> FALSE, rows |-> <<>>]
CatBad == Catalog(<<BadRow, CatalogRow("Nowhere", Num(2861390), NotNum)>>)
CatSmall == Catalog(<<Chennai, BadRow, Delhi, Mumbai>>)
CatTies == Catalog(<<Mumbai, Delhi, Noida, Delhi>>)
CatTwelve == Catalog(<<Delhi, Mumbai, Chennai, Bengaluru, Kolkata, Hyderabad,
                        Jaipur, Ahmedabad, Pune, Lucknow, Bhopal, Patna>>)
\* MAXSIZE regions on one parallel, 0.0001 degree apart
CatBig == Catalog([i \in 1..MAXSIZE |->
                  CatalogRow("R", Num(1907600), Num(7300000 + 10 * i))])

Catalogs == {CatMissing, CatBad, CatSmall, CatTies, CatTwelve}

\* read_regions: a missing file gives no regions; a row whose latitude or
\* longitude float() rejects is skipped
Parses(r) == r.latitude.num /\ r.longitude.num
ParseRows(rows) ==
    LET kept == SelectSeq(rows, Parses)
    IN  [i \in 1..Len(kept) |->
            [region |-> kept[i].region, latitude |-> kept[i].latitude.val,
             longitude |-> kept[i].longitude.val]]

read_regions(file) == IF file.exists THEN ParseRows(file.rows) ELSE <<>>

\* the cache key of a coordinate pair: round(lat, 4), round(lon, 4)
Key(latitude, longitude) == [lat |-> Round4(latitude), lon |-> Round4(longitude)]

\* ------------------------------------------------------------- the ranking
MaxEnergy(rows) ==
    LET energies == {rows[i].energy : i \in 1..Len(rows)}
    IN  CHOOSE m \in energies : \A e \in energies : e <= m

RemoveAt(rows, i) == SubSeq(rows, 1, i - 1) \o SubSeq(rows, i + 1, Len(rows))

\* the rows that may come next in a descending sort: sort_values uses
\* quicksort, which orders equal energies arbitrarily
NextInSort(rows) ==
    LET m == MaxEnergy(rows)
    IN  {i \in 1..Len(rows) : rows[i].energy = m}

\* df.sort_values(by='energy', ascending=False).head(n): every outcome
RECURSIVE SortedHeads(_, _)
SortedHeads(rows, n) ==
    IF n = 0 \/ rows = <<>> THEN {<<>>}
    ELSE UNION {{<<rows[i]>> \o t : t \in SortedHeads(RemoveAt(rows, i), n - 1)} :
                i \in NextInSort(rows)}

\* ------------------------------------------------------------------- state
VARIABLES
    catalogFile,    \* csv/india_regions.csv
    queryLog,       \* csv/User_Query.csv
    snapshot,       \* csv/TOP_10_REGIONS.csv
    today,          \* day of the year of datetime.date.today()
    provider,       \* mode of the upstream providers
    weatherCache,   \* lru_cache of get_weather_data
    geoCache,       \* lru_cache of get_region_name_from_coords
    pc,             \* per request thread: position in index()
    form,           \* per thread: request.form
    result,         \* per thread: the result dict of index()
    outcome,        \* per thread: what the last response showed
    write_header,   \* per thread: local of index()
    regions,        \* per thread: local of process_and_save_top_regions()
    idx,            \* per thread: position of the loop over regions
    results,        \* per thread: local of process_and_save_top_regions()
    top_regions_df, \* per thread: what process_and_save_top_regions returned
    stamp,          \* per thread: time of the request
    clock,          \* requests received so far
    calls,          \* history: calls of get_weather_data per key
    fetches,        \* history: upstream weather requests per key
    recency,        \* history: keys in the order of their latest call
    lastVal,        \* history: value of the latest call per key
    lastCall,       \* history: the latest call of get_weather_data
    geoFetches,     \* history: upstream geocoding requests
    failed,         \* history: keys whose latest upstream request failed
    submitted,      \* history: the rows of the accepted submissions, in order
    upstream,       \* gateway on its own: the upstream outcome handed to it
    answer          \* gateway on its own: what get_weather_data did with it

files == <<catalogFile, queryLog, snapshot>>
caches == <<weatherCache, geoCache>>
locals == <<pc, form, result, outcome, write_header, regions, idx, results,
            top_regions_df, stamp>>
lookups == <<calls, fetches, recency, lastVal, lastCall, failed>>
history == <<lookups, geoFetches, submitted>>
probe == <<upstream, answer>>
vars == <<files, today, provider, caches, locals, clock, history, probe>>

\* --------------------------------------------------------------- inputs
Latitudes == {Num(2861390), Num(2861394), Num(7000000), NotNum}
Longitudes == {Num(7720900), NotNum}
RegionFields == {"", "Home"}

KeysOf(rs) == {Key(rs[i].latitude, rs[i].longitude) : i \in 1..Len(rs)}

LruLatitudes == {Num(1907600)}
LruLongitudes == {Num(7305120), Num(7720900)}

FormKeys ==
    {Key(la.val, lo.val) : la \in {l \in Latitudes \cup LruLatitudes : l.num},
                           lo \in {l \in Longitudes \cup LruLongitudes : l.num}}

AllKeys(file) == FormKeys \cup KeysOf(read_regions(file))

\* ---------------------------------------------------------------- initial
NoForm == [latitude |-> NotNum, longitude |-> NotNum, region |-> ""]
NoAnswer == [done |-> FALSE, raised |-> FALSE, val |-> NoWeather]

\* the csv directory is empty on a first start and holds the files of the
\* earlier life on a restart
FirstStart == <<AbsentFile, AbsentFile>>
Restart == <<OldFile, OldFile>>

InitWith(cats, disks, days, modes) ==
    /\ catalogFile \in cats
    /\ \E d \in disks : queryLog = d[1] /\ snapshot = d[2]
    /\ today \in days
    /\ provider \in modes
    /\ weatherCache = <<>>
    /\ geoCache = <<>>
    /\ pc = [w \in Workers |-> "idle"]
    /\ form = [w \in Workers |-> NoForm]
    /\ result = [w \in Workers |-> NoRow]
    /\ outcome = [w \in Workers |-> "none"]
    /\ write_header = [w \in Workers |-> FALSE]
    /\ regions = [w \in Workers |-> <<>>]
    /\ idx = [w \in Workers |-> 0]
    /\ results = [w \in Workers |-> <<>>]
    /\ top_regions_df = [w \in Workers |-> <<>>]
    /\ stamp = [w \in Workers |-> 0]
    /\ clock = 0
    /\ calls = [k \in AllKeys(catalogFile) |-> 0]
    /\ fetches = [k \in AllKeys(catalogFile) |-> 0]
    /\ recency = <<>>
    /\ lastVal = [k \in AllKeys(catalogFile) |-> NoWeather]
    /\ lastCall = [key |-> Key(0, 0), fetched |-> FALSE, val |-> NoWeather]
    /\ geoFetches = 0
    /\ failed = {}
    /\ submitted = FileRows(queryLog)
    /\ upstream = Failure("Timeout")
    /\ answer = NoAnswer

MainModes == {"up", "wild", "down"}

Init == InitWith(Catalogs, {FirstStart, Restart}, Days, MainModes)

\* ----------------------------------------------------------- the gateways
\* variant: a fallback is returned but not remembered
get_weather_data_forgets_failures(cache, mode, key) ==
    IF CacheHas(cache, key)
    THEN [cache |-> CacheTouch(cache, key), val |-> CacheValue(cache, key),
          fetched |-> FALSE, failed |-> FALSE]
    ELSE LET res == Respond(mode, key)
             v == FetchWeather(res).val
         IN  [cache |-> IF WeatherException(res) # "none" THEN cache
                        ELSE CacheStore(cache, key, v),
              val |-> v, fetched |-> TRUE,
              failed |-> WeatherException(res) # "none"]

\* get_weather_data behind its lru_cache: the cache afterwards, the value
\* returned, and whether the upstream was asked
get_weather_data(cache, mode, key) ==
    IF CacheHas(cache, key)
    THEN [cache |-> CacheTouch(cache, key), val |-> CacheValue(cache, key),
          fetched |-> FALSE, failed |-> FALSE]
    ELSE LET res == Respond(mode, key)
             v == FetchWeather(res).val
         IN  [cache |-> CacheStore(cache, key, v), val |-> v, fetched |-> TRUE,
              failed |-> WeatherException(res) # "none"]

get_region_name_from_coords(cache, mode, key) ==
    IF CacheHas(cache, key)
    THEN [cache |-> CacheTouch(cache, key), val |-> CacheValue(cache, key),
          fetched |-> FALSE]
    ELSE LET v == FetchRegionName(mode, key)
         IN  [cache |-> CacheStore(cache, key, v), val |-> v, fetched |-> TRUE]

\* record one call of get_weather_data in the history
Recorded(key, r) ==
    /\ calls' = [calls EXCEPT ![key] = @ + 1]
    /\ fetches' = [fetches EXCEPT ![key] = IF r.fetched THEN @ + 1 ELSE @]
    /\ recency' = Append(SelectSeq(recency, LAMBDA x : x # key), key)
    /\ lastVal' = [lastVal EXCEPT ![key] = r.val]
    /\ lastCall' = [key |-> key, fetched |-> r.fetched, val |-> r.val]
    /\ failed' = IF ~r.fetched THEN failed
                 ELSE IF r.failed THEN failed \cup {key} ELSE failed \ {key}

\* ------------------------------------------------------------ the handler
\* variant: only the latitude is checked
ValidInput_latitude_only(latitude, longitude) == latitude.num

\* index(), lines 155-162: both fields must pass float()
ValidInput(latitude, longitude) == latitude.num /\ longitude.num

\* variant: every append writes the header
HeaderNeeded_always(file) == TRUE

\* index(), line 183: write_header = not os.path.exists(USER_QUERIES_FILE)
HeaderNeeded(file) == ~file.exists

\* index(), lines 154-181: a POST arrives; a rejected form answers with the
\* error message and does nothing else, an accepted one builds the result
Post(w, latitude, longitude, region) ==
    /\ pc[w] = "idle"
    /\ clock < MaxPosts
    /\ clock' = clock + 1
    /\ stamp' = [stamp EXCEPT ![w] = clock + 1]
    /\ top_regions_df' = [top_regions_df EXCEPT ![w] = <<>>]
    /\ form' = [form EXCEPT ![w] =
           [latitude |-> latitude, longitude |-> longitude, region |-> region]]
    /\ UNCHANGED <<files, today, probe, provider, write_header, regions, idx, results>>
    /\ IF ~ValidInput(latitude, longitude)
       THEN /\ outcome' = [outcome EXCEPT ![w] = "error"]
            /\ result' = [result EXCEPT ![w] = NoRow]
            /\ UNCHANGED <<pc, caches, history>>
       ELSE LET key == Key(latitude.val, longitude.val)
                g == get_region_name_from_coords(geoCache, provider, key)
                r == get_weather_data(weatherCache, provider, key)
                name == IF region # "" THEN region ELSE g.val
            IN  /\ geoCache' = IF region # "" THEN geoCache ELSE g.cache
                /\ geoFetches' = IF region = "" /\ g.fetched
                                 THEN geoFetches + 1 ELSE geoFetches
                /\ weatherCache' = r.cache
                /\ Recorded(key, r)
                /\ result' = [result EXCEPT ![w] =
                       Estimate(name, today, clock + 1, latitude.val, r.val)]
                /\ submitted' = Append(submitted,
                       Estimate(name, today, clock + 1, latitude.val, r.val))
                /\ outcome' = [outcome EXCEPT ![w] = "pending"]
                /\ pc' = [pc EXCEPT ![w] = "check"]

\* index(), line 183
CheckLog(w) ==
    /\ pc[w] = "check"
    /\ write_header' = [write_header EXCEPT ![w] = HeaderNeeded(queryLog)]
    /\ pc' = [pc EXCEPT ![w] = "open"]
    /\ UNCHANGED <<files, today, probe, provider, caches, form, result, outcome, regions, idx,
                   results, top_regions_df, stamp, clock, history>>

\* index(), line 184: open(..., 'a') creates the file when it is missing
OpenLog(w) ==
    /\ pc[w] = "open"
    /\ queryLog' = [queryLog EXCEPT !.exists = TRUE]
    /\ pc' = [pc EXCEPT ![w] = "write"]
    /\ UNCHANGED <<catalogFile, snapshot, today, probe, provider, caches, form, result,
                   outcome, write_header, regions, idx, results, top_regions_df,
                   stamp, clock, history>>

\* index(), lines 185-187: the header (if asked for) and the row reach the
\* file together when the with block closes it
WriteLog(w) ==
    /\ pc[w] = "write"
    /\ queryLog' = [queryLog EXCEPT !.lines =
           @ \o (IF write_header[w] THEN <<HeaderLine>> ELSE <<>>)
             \o <<DataLine(result[w])>>]
    /\ pc' = [pc EXCEPT ![w] = "load"]
    /\ UNCHANGED <<catalogFile, snapshot, today, probe, provider, caches, form, result,
                   outcome, write_header, regions, idx, results, top_regions_df,
                   stamp, clock, history>>

\* process_and_save_top_regions(), lines 97-102
RankBegin(w) ==
    /\ pc[w] = "load"
    /\ regions' = [regions EXCEPT ![w] = read_regions(catalogFile)]
    /\ results' = [results EXCEPT ![w] = <<>>]
    /\ idx' = [idx EXCEPT ![w] = 1]
    /\ pc' = [pc EXCEPT ![w] = "rank"]
    /\ UNCHANGED <<files, today, probe, provider, caches, form, result, outcome, write_header,
                   top_regions_df, stamp, clock, history>>

\* process_and_save_top_regions(), lines 103-119: one turn of the loop
RankRegion(w) ==
    /\ pc[w] = "rank"
    /\ idx[w] <= Len(regions[w])
    /\ LET r == regions[w][idx[w]]
           key == Key(r.latitude, r.longitude)
           wx == get_weather_data(weatherCache, provider, key)
       IN  /\ weatherCache' = wx.cache
           /\ Recorded(key, wx)
           /\ results' = [results EXCEPT ![w] = Append(@,
                  Estimate(r.region, today, stamp[w], r.latitude, wx.val))]
    /\ idx' = [idx EXCEPT ![w] = @ + 1]
    /\ UNCHANGED <<files, today, probe, provider, geoCache, pc, form, result,
                   outcome, write_header, regions, top_regions_df, stamp, clock,
                   geoFetches, submitted>>

\* process_and_save_top_regions(), lines 120-124, and the return to index():
\* an empty frame is returned as it is and nothing is written
RankSave(w) ==
    /\ pc[w] = "rank"
    /\ idx[w] > Len(regions[w])
    /\ IF results[w] = <<>>
       THEN /\ top_regions_df' = [top_regions_df EXCEPT ![w] = <<>>]
            /\ UNCHANGED snapshot
       ELSE \E top \in SortedHeads(results[w], TOP_N) :
            /\ top_regions_df' = [top_regions_df EXCEPT ![w] = top]
            /\ snapshot' = [exists |-> TRUE,
                            lines |-> <<HeaderLine>> \o DataLines(top)]
    /\ outcome' = [outcome EXCEPT ![w] = "ok"]
    /\ pc' = [pc EXCEPT ![w] = "idle"]
    /\ UNCHANGED <<catalogFile, queryLog, today, probe, provider, caches, form, result,
                   write_header, regions, idx, results, stamp, clock, history>>

\* the environment: the upstream providers change behaviour between requests
\* (a change after the last request of a run is seen by nobody)
ProviderChange(mode) ==
    /\ \A w \in Workers : pc[w] = "idle"
    /\ clock < MaxPosts
    /\ mode # provider
    /\ provider' = mode
    /\ UNCHANGED <<files, today, probe, caches, locals, clock, history>>

Handler(w) ==
    \/ \E la \in Latitudes, lo \in Longitudes, rg \in RegionFields : Post(w, la, lo, rg)
    \/ CheckLog(w)
    \/ OpenLog(w)
    \/ WriteLog(w)
    \/ RankBegin(w)
    \/ RankRegion(w)
    \/ RankSave(w)

\* requests handled one after another
Next ==
    \/ Handler(1)
    \/ \E mode \in MainModes : ProviderChange(mode)

Spec == Init /\ [][Next]_vars


\* ------------------------------------------- requests handled concurrently
\* app.run() serves each request on its own thread
InitConc == InitWith({CatSmall, CatMissing}, {FirstStart}, {172}, {"up"})

NextConc == \E w \in Workers : Handler(w)

SpecConc == InitConc /\ [][NextConc]_vars

\* ----------------------------------------------- a catalog as large as the
\* cache: every region of CatBig has its own key
LruModes == {"up", "partial"}

InitLru == InitWith({CatBig}, {FirstStart}, {172}, LruModes)

HandlerLru(w) ==
    \/ \E la \in LruLatitudes, lo \in LruLongitudes : Post(w, la, lo, "Home")
    \/ CheckLog(w)
    \/ OpenLog(w)
    \/ WriteLog(w)
    \/ RankBegin(w)
    \/ RankRegion(w)
    \/ RankSave(w)

NextLru ==
    \/ HandlerLru(1)
    \/ \E mode \in LruModes : ProviderChange(mode)

SpecLru == InitLru /\ [][NextLru]_vars

\* ------------------------------------------------- the gateway on its own
\* get_weather_data applied to each upstream outcome
Temperatures == {-5, 0, 31}
CloudLists == {<<0>>, <<10000>>, <<4000, 6000>>, <<2500, 2500, 7000>>, <<15000>>,
               <<-2000>>, <<0, 0, 0, 100>>}

CurrentWeathers ==
    {Member(FALSE, FALSE, FALSE, 0), Member(TRUE, FALSE, FALSE, 0),
     Member(TRUE, TRUE, FALSE, 0)}
    \cup {Member(TRUE, TRUE, TRUE, t) : t \in Temperatures}

Hourlies ==
    {Hourly(FALSE, FALSE, FALSE, TRUE, <<>>), Hourly(TRUE, FALSE, FALSE, TRUE, <<>>),
     Hourly(TRUE, TRUE, FALSE, TRUE, <<>>), Hourly(TRUE, TRUE, TRUE, TRUE, <<>>),
     Hourly(TRUE, TRUE, TRUE, FALSE, <<0>>)}
    \cup {Hourly(TRUE, TRUE, TRUE, TRUE, l) : l \in CloudLists}

Outcomes ==
    {Failure(k) : k \in {"ConnectionError", "Timeout", "HTTPError", "JSONDecodeError"}}
    \cup {Json(Body(FALSE, Member(FALSE, FALSE, FALSE, 0),
                    Hourly(FALSE, FALSE, FALSE, TRUE, <<>>)))}
    \cup {Json(Body(TRUE, cw, hr)) : cw \in CurrentWeathers, hr \in Hourlies}

InitWeather == InitWith({CatMissing}, {FirstStart}, {172}, {"up"})

\* the upstream answers a request
Arrive(res) ==
    /\ ~answer.done
    /\ upstream' = res
    /\ answer' = [done |-> TRUE, raised |-> FetchWeather(res).raised,
                   val |-> FetchWeather(res).val]
    /\ UNCHANGED <<files, today, provider, caches, locals, clock, history>>

\* the next request
Again ==
    /\ answer.done
    /\ answer' = NoAnswer
    /\ UNCHANGED upstream
    /\ UNCHANGED <<files, today, provider, caches, locals, clock, history>>

NextWeather ==
    \/ \E res \in Outcomes : Arrive(res)
    \/ Again

SpecWeather == InitWeather /\ [][NextWeather]_vars

\* =================================================================== claims

\* stable variant of the ranking: equal energies keep their catalog order
RECURSIVE StableHead(_, _)
StableHead(rows, n) ==
    IF n = 0 \/ rows = <<>> THEN <<>>
    ELSE LET i == CHOOSE j \in NextInSort(rows) : \A k \in NextInSort(rows) : j <= k
         IN  <<rows[i]>> \o StableHead(RemoveAt(rows, i), n - 1)

Finished(w) == pc[w] = "idle" /\ outcome[w] = "ok"
Appending(w) == pc[w] \in {"check", "open", "write"}
SameRows(a, b) == Len(a) = Len(b) /\ \A i \in 1..Len(a) : a[i] = b[i]

\* C1: after every ranking run the snapshot file holds exactly the rows that
\* run returned, also when the run returned none and an older snapshot exists
C1_SnapshotReplaced ==
    Finished(1) => SameRows(FileRows(snapshot), top_regions_df[1])

\* C2: after submissions handled one after another the query log has one
\* header line, in first place, followed by the rows the file started with
\* and one row per accepted submission, in submission order
C2_LogIsHeaderPlusRows ==
    ~Appending(1) =>
        /\ SameRows(FileRows(queryLog), submitted)
        /\ queryLog.exists <=> submitted # <<>>
        /\ queryLog.exists => HeaderCount(queryLog) = 1 /\ queryLog.lines[1].header

C2_Witness ==
    /\ pc[1] = "idle"
    /\ Len(queryLog.lines) = 3
    /\ queryLog.lines[2].row.time = 1
    /\ queryLog.lines[3].row.time = 2

\* the distinct other keys looked up since the latest call for key k
DistinctSince(k) ==
    Len(recency) - (CHOOSE i \in 1..Len(recency) : recency[i] = k)

Called == lastCall.key \in DOMAIN calls /\ calls[lastCall.key] >= 1

\* C3 as stated: whatever was looked up in between, the key of a call has
\* cost exactly one upstream fetch over all the calls made for it, and a
\* repeated call asks the upstream nothing
C3_OneFetchPerKey ==
    Called =>
        /\ fetches[lastCall.key] = 1
        /\ calls[lastCall.key] >= 2 => ~lastCall.fetched

\* C3 amended: a call for a key that was looked up before, with fewer than
\* MAXSIZE distinct other keys looked up since, asks the upstream nothing and
\* returns what the earlier call returned
C3_OneFetchWhileRetained ==
    [][LET k == lastCall'.key
       IN  (/\ k \in DOMAIN calls
            /\ calls'[k] = calls[k] + 1
            /\ calls[k] >= 1
            /\ DistinctSince(k) < MAXSIZE)
              => (fetches'[k] = fetches[k] /\ lastCall'.val = lastVal[k])]_vars

C3_Witness ==
    /\ Called
    /\ calls[lastCall.key] = 2
    /\ fetches[lastCall.key] = 1
    /\ ~lastCall.fetched
    /\ Len(weatherCache) = MAXSIZE
    /\ DistinctSince(lastCall.key) = 0
    /\ idx[1] = MAXSIZE + 1

\* an upstream outcome other than a JSON object carrying a temperature and a
\* non-empty list of cloud cover numbers
TransportFailed(res) == res.transport # "ok"
HasTemperature(res) ==
    res.body.cw.present /\ res.body.cw.isObject /\ res.body.cw.has
HasCloudList(res) ==
    res.body.hourly.present /\ res.body.hourly.isObject /\ res.body.hourly.has
Malformed(res) ==
    \/ ~res.body.isObject
    \/ ~HasTemperature(res)
    \/ ~HasCloudList(res)
    \/ ~res.body.hourly.numeric
    \/ res.body.hourly.list = <<>>
Unusable(res) ==
    \/ ~res.body.isObject
    \/ res.body.cw.present /\ ~res.body.cw.isObject
    \/ res.body.hourly.present /\ ~res.body.hourly.isObject
    \/ HasCloudList(res) /\ ~res.body.hourly.numeric

C5_RejectedFormChangesNothing ==
    [][\A w \in Workers :
         (/\ clock' = clock + 1
          /\ stamp'[w] = clock + 1
          /\ ~(form'[w].latitude.num /\ form'[w].longitude.num))
            => /\ outcome'[w] = "error"
               /\ pc'[w] = "idle"
               /\ UNCHANGED <<queryLog, snapshot, weatherCache, geoCache, calls,
                              fetches, geoFetches, submitted, regions, results>>]_vars

C5_Witness ==
    /\ outcome[1] = "error"
    /\ form[1].latitude.num
    /\ ~form[1].longitude.num
    /\ stamp[1] = 2
    /\ Len(weatherCache) >= 1
    /\ queryLog.exists

\* C6: the ranking returns min(10, regions loaded) estimates by descending
\* energy, equal energies in catalog order
C6_StableTopTen ==
    Finished(1) => top_regions_df[1] = StableHead(results[1], TOP_N)

InRange(row) ==
    /\ row.daylight >= 0 /\ row.daylight <= 2400
    /\ row.intensity >= 0 /\ row.intensity <= 100 * SOLAR_CONSTANT
    /\ row.energy >= 0

\* C7: every estimate written to the query log or to the snapshot has
\* daylight in [0, 24], intensity in [0, 1367] and energy >= 0
C7_EstimatesInRange ==
    /\ \A i \in 1..Len(queryLog.lines) :
          ~queryLog.lines[i].header => InRange(queryLog.lines[i].row)
    /\ \A i \in 1..Len(snapshot.lines) :
          ~snapshot.lines[i].header => InRange(snapshot.lines[i].row)

\* C8: the snapshot a run wrote reads back as the rows the run returned, at
\* most 10, by descending energy, no region name twice
C8_SnapshotRoundTrip ==
    (Finished(1) /\ top_regions_df[1] # <<>>) =>
        LET rows == FileRows(snapshot)
        IN  /\ SameRows(rows, top_regions_df[1])
            /\ Len(rows) <= 10
            /\ \A i \in 1..Len(rows) - 1 : rows[i].energy >= rows[i + 1].energy
            /\ \A i, j \in 1..Len(rows) : i # j => rows[i].region # rows[j].region

\* C9: a key whose fetch failed keeps answering with the fallback pair and
\* without a new upstream request while fewer than MAXSIZE distinct other
\* keys have been looked up since, whatever the provider does meanwhile; no
\* call asks the upstream more than once
C9_FailureMemoized ==
    [][\A k \in DOMAIN calls :
         /\ fetches'[k] <= fetches[k] + 1
         /\ (k \in failed /\ calls'[k] = calls[k] + 1 /\ DistinctSince(k) < MAXSIZE)
               => /\ fetches'[k] = fetches[k]
                  /\ lastCall' = [key |-> k, fetched |-> FALSE,
                                  val |-> [temp |-> 25, clouds |-> 0]]]_vars

C9_Witness ==
    /\ provider = "up"
    /\ lastCall.key \in failed
    /\ calls[lastCall.key] >= 2
    /\ fetches[lastCall.key] = 1
    /\ ~lastCall.fetched
    /\ lastCall.val = [temp |-> 25, clouds |-> 0]

\* C10: two submissions handled concurrently from an absent query log leave
\* one header line and one row per submission
C10_ConcurrentLog ==
    (\A w \in Workers : ~Appending(w)) =>
        (submitted # <<>> =>
            /\ HeaderCount(queryLog) = 1
            /\ Len(FileRows(queryLog)) = Len(submitted)
            /\ \A i \in 1..Len(submitted) :
                  \E j \in 1..Len(queryLog.lines) :
                      ~queryLog.lines[j].header /\ queryLog.lines[j].row = submitted[i])

====
